---- MODULE Spec2Model ----
(***************************************************************************)
(* Batch quote extraction through a remote batch API: building requests    *)
(* (create_request), writing the batch file (write_jsonl), submitting the  *)
(* job, polling it (get_processed_data) and materializing its results.     *)
(*                                                                         *)
(* Text is a sequence of one-character strings.  A Python value is a       *)
(* record [t, v]: t is its type ("str", "None", or "missing" for a key     *)
(* that is absent from a dict) and v its characters.                       *)
(***************************************************************************)
EXTENDS Integers, Sequences, FiniteSets, TLC

VARIABLES
    flow,          \* which script runs: "submit" (extract.py), "poll" (poll_download_batch.py), "build" (create_request alone)
    pc,            \* position of the running script
    apiKey,        \* GEMINI_API_KEY is present in the environment
    dryRun,        \* args.dry_run
    data,          \* the loaded input file: a sequence of article records
    prompt,        \* the prompt text
    schema,        \* the response schema
    uploadFile,    \* the file at args.upload_file
    output,        \* the file at args.output
    jobState,      \* state of the remote batch job ("NONE": no job exists)
    batch_job,     \* the state the last status query of get_processed_data returned
    observed,      \* states returned by the status queries of get_processed_data, in order
    sleeps,        \* number of time.sleep(30) calls of get_processed_data
    file_content,  \* decoded text of the downloaded result file
    retval,        \* what get_processed_data returned
    exitCode,      \* exit code of the process (-1 while it runs)
    error,         \* the exception that ended the process ("" if none)
    ops,           \* operations the running process has performed
    runs,          \* number of times the script has been started
    record,        \* argument of a direct call of create_request
    request,       \* result of that call
    main_out,      \* lines main() has printed, in order
    cpc,           \* position of the cancel script (cancel.py)
    cops,          \* remote operations the cancel script has issued
    cexit,         \* exit code of the cancel script (-1 while it runs or has not run)
    cerror         \* the exception that ended the cancel script ("" if none)

vars == <<flow, pc, apiKey, dryRun, data, prompt, schema, uploadFile, output,
          jobState, batch_job, observed, sleeps, file_content,
          retval, exitCode, error, ops, runs, record, request, main_out, cpc, cops, cexit, cerror>>

-----------------------------------------------------------------------------
(* Bounds of the model *)

MaxBodyLen == 2
MaxRecords == 2
MaxContentLen == 4
MaxSleeps == 3
MaxRuns == 2

-----------------------------------------------------------------------------
(* Text helpers *)

RECURSIVE Concat(_)
Concat(ss) == IF ss = <<>> THEN <<>> ELSE Head(ss) \o Concat(Tail(ss))

SeqsUpTo(S, n) == UNION {[1..k -> S] : k \in 0..n}

NL == "\n"
NonAscii == "U+00E9"

Str(s) == [t |-> "str", v |-> s]
PyNone == [t |-> "None", v |-> <<>>]
Missing == [t |-> "missing", v |-> <<>>]

\* what an f-string interpolates for a value
Format(val) == IF val.t = "None" THEN <<"N", "o", "n", "e">> ELSE val.v

ArticleOpen == <<"<", "a", "r", "t", "i", "c", "l", "e", ">">>
ArticleClose == <<"<", "/", "a", "r", "t", "i", "c", "l", "e", ">">>

-----------------------------------------------------------------------------
(* create_request *)

KeyError(k) == [ok |-> FALSE, error |-> "KeyError", key |-> k]

GenerationConfig(s) ==
    Str(<<"{'responseMimeType': 'application/json', 'responseSchema': ", s,
          ", 'temperature': 0}">>)

\* the prompt placed after the article instead of before it
RequestTextPromptLast(r, p) == ArticleOpen \o Format(r.body) \o ArticleClose \o p

RequestText(r, p) == p \o ArticleOpen \o Format(r.body) \o ArticleClose

create_request(r, p, s) ==
    IF r.body.t = "missing" THEN KeyError("body")
    ELSE IF r.uri.t = "missing" THEN KeyError("uri")
    ELSE [ok |-> TRUE,
          key |-> r.uri,
          request |-> [contents |-> << [role |-> "user",
                                        parts |-> << [text |-> RequestText(r, p)] >>] >>],
          generationConfig |-> GenerationConfig(s)]

-----------------------------------------------------------------------------
(* json.dumps of a request (ensure_ascii, default separators) *)

Escape(c) ==
    IF c = NL THEN <<"\\", "n">>
    ELSE IF c = "\"" THEN <<"\\", "\"">>
    ELSE IF c = "\\" THEN <<"\\", "\\">>
    ELSE IF c = NonAscii THEN <<"\\", "u", "0", "0", "e", "9">>
    ELSE <<c>>

DumpsStr(s) == <<"\"">> \o Concat([i \in 1..Len(s) |-> Escape(s[i])]) \o <<"\"">>

DumpsValue(val) == IF val.t = "None" THEN <<"n", "u", "l", "l">> ELSE DumpsStr(val.v)

KeyOpen == "{\"key\": "
TextOpen == ", \"request\": {\"contents\": [{\"role\": \"user\", \"parts\": [{\"text\": "
ConfigOpen == "}]}]}, \"generationConfig\": "

Dumps(req) ==
    <<KeyOpen>> \o DumpsValue(req.key)
    \o <<TextOpen>> \o DumpsStr(req.request.contents[1].parts[1].text)
    \o <<ConfigOpen>> \o DumpsValue(req.generationConfig) \o <<"}">>

\* the inverse of DumpsStr: s is what follows the opening quote
RECURSIVE Unescape(_)
Unescape(s) ==
    IF s = <<>> \/ Head(s) = "\"" THEN <<>>
    ELSE IF Head(s) = "\\" /\ Len(s) >= 2
         THEN IF s[2] = "n" THEN <<NL>> \o Unescape(SubSeq(s, 3, Len(s)))
              ELSE IF s[2] = "u" THEN <<NonAscii>> \o Unescape(SubSeq(s, 7, Len(s)))
              ELSE <<s[2]>> \o Unescape(SubSeq(s, 3, Len(s)))
         ELSE <<Head(s)>> \o Unescape(Tail(s))

\* the "key" member of one line of the batch file, as the remote reads it back
LineKey(line) ==
    IF Len(line) >= 2 /\ line[1] = KeyOpen /\ line[2] = "\""
    THEN Str(Unescape(SubSeq(line, 3, Len(line))))
    ELSE PyNone

-----------------------------------------------------------------------------
(* Files and lines *)

Absent == [exists |-> FALSE, text |-> <<>>]
File(txt) == [exists |-> TRUE, text |-> txt]

\* str.splitlines: a line ends at each newline, and at the end of the text
\* when the text does not end with a newline
splitlines(s) ==
    LET ends == {i \in 1..Len(s) : s[i] = NL}
                \cup (IF s # <<>> /\ s[Len(s)] # NL THEN {Len(s) + 1} ELSE {})
        end(k) == CHOOSE e \in ends : Cardinality({x \in ends : x < e}) = k - 1
        start(k) == IF k = 1 THEN 1 ELSE end(k - 1) + 1
    IN  [k \in 1..Cardinality(ends) |-> SubSeq(s, start(k), end(k) - 1)]

RECURSIVE LStrip(_)
LStrip(s) == IF s # <<>> /\ Head(s) = " " THEN LStrip(Tail(s)) ELSE s

RECURSIVE RStrip(_)
RStrip(s) == IF s # <<>> /\ s[Len(s)] = " " THEN RStrip(SubSeq(s, 1, Len(s) - 1)) ELSE s

strip(s) == RStrip(LStrip(s))

-----------------------------------------------------------------------------
(* write_jsonl *)

\* f.write(json.dumps(processed_item)) without the line terminator
RECURSIVE WriteItemsNoNewline(_, _, _)
WriteItemsNoNewline(items, p, s) ==
    IF items = <<>> THEN [ok |-> TRUE, text |-> <<>>]
    ELSE LET processed_item == create_request(Head(items), p, s)
         IN  IF ~processed_item.ok THEN [ok |-> FALSE, text |-> <<>>]
             ELSE LET rest == WriteItemsNoNewline(Tail(items), p, s)
                  IN  [ok |-> rest.ok, text |-> Dumps(processed_item) \o rest.text]

\* every request built before the first line is written: a record that fails
\* leaves nothing in the file
RECURSIVE WriteItemsAllOrNothing(_, _, _)
WriteItemsAllOrNothing(items, p, s) ==
    IF items = <<>> THEN [ok |-> TRUE, text |-> <<>>]
    ELSE LET processed_item == create_request(Head(items), p, s)
         IN  IF ~processed_item.ok THEN [ok |-> FALSE, text |-> <<>>]
             ELSE LET rest == WriteItemsAllOrNothing(Tail(items), p, s)
                  IN  [ok |-> rest.ok,
                       text |-> IF rest.ok
                                THEN Dumps(processed_item) \o <<NL>> \o rest.text
                                ELSE <<>>]

RECURSIVE WriteItems(_, _, _)
WriteItems(items, p, s) ==
    IF items = <<>> THEN [ok |-> TRUE, text |-> <<>>]
    ELSE LET processed_item == create_request(Head(items), p, s)
         IN  IF ~processed_item.ok THEN [ok |-> FALSE, text |-> <<>>]
             ELSE LET rest == WriteItems(Tail(items), p, s)
                  IN  [ok |-> rest.ok,
                       text |-> Dumps(processed_item) \o <<NL>> \o rest.text]

\* the file opened with "a" instead of "w"
write_jsonl_append(old, items, p, s) == File(old.text \o WriteItems(items, p, s).text)

\* the file write_jsonl leaves at path (opened with "w"), whatever was there before
write_jsonl(old, items, p, s) == File(WriteItems(items, p, s).text)

-----------------------------------------------------------------------------
(* Result materialization: json.loads per line, json.dump of the list *)

Digits == {"1", "2"}

RECURSIVE Num(_)
Num(s) == IF s = <<>> THEN 0 ELSE 10 * Num(SubSeq(s, 1, Len(s) - 1)) + (IF s[Len(s)] = "1" THEN 1 ELSE 2)

RECURSIVE NumText(_)
NumText(n) ==
    IF n < 10 THEN <<IF n = 1 THEN "1" ELSE "2">>
    ELSE Append(NumText(n \div 10), IF n % 10 = 1 THEN "1" ELSE "2")

json_loads(line) ==
    LET s == strip(line)
    IN  IF s # <<>> /\ \A i \in 1..Len(s) : s[i] \in Digits
        THEN [ok |-> TRUE, value |-> Num(s)]
        ELSE [ok |-> FALSE, value |-> 0]

\* a line that does not parse is skipped instead of raising
RECURSIVE ParseLinesSkipBad(_)
ParseLinesSkipBad(lines) ==
    IF lines = <<>> THEN [ok |-> TRUE, list |-> <<>>]
    ELSE LET v == json_loads(Head(lines))
             rest == ParseLinesSkipBad(Tail(lines))
         IN  IF ~v.ok THEN rest
             ELSE [ok |-> rest.ok, list |-> <<v.value>> \o rest.list]

\* the loop over the lines ends at the first blank line instead of skipping it
RECURSIVE ParseLinesStopAtBlank(_)
ParseLinesStopAtBlank(lines) ==
    IF lines = <<>> THEN [ok |-> TRUE, list |-> <<>>]
    ELSE IF strip(Head(lines)) = <<>> THEN [ok |-> TRUE, list |-> <<>>]
    ELSE LET v == json_loads(Head(lines))
         IN  IF ~v.ok THEN [ok |-> FALSE, list |-> <<>>]
             ELSE LET rest == ParseLinesStopAtBlank(Tail(lines))
                  IN  [ok |-> rest.ok, list |-> <<v.value>> \o rest.list]

RECURSIVE ParseLines(_)
ParseLines(lines) ==
    IF lines = <<>> THEN [ok |-> TRUE, list |-> <<>>]
    ELSE IF strip(Head(lines)) = <<>> THEN ParseLines(Tail(lines))
    ELSE LET v == json_loads(Head(lines))
         IN  IF ~v.ok THEN [ok |-> FALSE, list |-> <<>>]
             ELSE LET rest == ParseLines(Tail(lines))
                  IN  [ok |-> rest.ok, list |-> <<v.value>> \o rest.list]

Indent == <<" ", " ", " ", " ">>

\* json.dump(output_list, f, indent=4, ensure_ascii=False)
json_dump(list) ==
    IF list = <<>> THEN <<"[", "]">>
    ELSE <<"[">>
         \o Concat([i \in 1..Len(list) |->
                       (IF i = 1 THEN <<NL>> ELSE <<",", NL>>) \o Indent \o NumText(list[i])])
         \o <<NL, "]">>

\* the array a reader of the output file gets back
OutputArray(txt) ==
    LET ls == splitlines(txt)
    IN  IF Len(ls) < 3 THEN <<>>
        ELSE [i \in 1..(Len(ls) - 2) |-> Num(SelectSeq(ls[i + 1], LAMBDA c : c \in Digits))]

-----------------------------------------------------------------------------
(* Inputs the model draws from *)

Chars == {"a", " ", NL, "\"", "\\", NonAscii}
Bodies == SeqsUpTo(Chars, MaxBodyLen)
Prompts == {<<>>, <<"p", ":", NL>>}
Schemas == {"SCHEMA", "CUSTOM"}
SCHEMA == "SCHEMA"

\* records given to create_request directly
Records == [uri : {Str(<<"u", "1">>), Str(<<"\"", NL>>), PyNone, Missing},
            body : {Str(b) : b \in Bodies} \cup {PyNone, Missing}]

\* records of the input files given to write_jsonl
FileRecords == [uri : {Str(<<"u", "1">>), Str(<<"u", "\"">>), Missing},
                body : {Str(<<"a", NL>>), Str(<<"\\", NonAscii>>), PyNone, Missing}]

GoodA == [uri |-> Str(<<"u", "1">>), body |-> Str(<<"a", NL>>)]
GoodB == [uri |-> Str(<<"u", "\"">>), body |-> Str(<<"\\", NonAscii>>)]
NoBody == [uri |-> Str(<<"u", "1">>), body |-> Missing]

\* input files of the full pipeline
DataSamples == {<<>>, <<GoodA>>, <<GoodA, GoodB>>, <<GoodA, NoBody>>, <<NoBody, GoodA>>}

OldBatch == <<"o", "l", "d", NL>>
OldOutput == <<"[", "]", NL>>

ContentChars == {NL, " ", "1", "2", "x"}
Contents == SeqsUpTo(ContentChars, MaxContentLen)

\* result files of the full pipeline
ContentSamples == {<<>>, <<NL>>, <<"1", NL, "2", NL>>, <<"1", NL, "x", NL>>, <<" ", NL, "2">>}

-----------------------------------------------------------------------------
(* The remote batch job *)

PENDING == "JOB_STATE_PENDING"
RUNNING == "JOB_STATE_RUNNING"
SUCCEEDED == "JOB_STATE_SUCCEEDED"
FAILED == "JOB_STATE_FAILED"
CANCELLED == "JOB_STATE_CANCELLED"
EXPIRED == "JOB_STATE_EXPIRED"

JobStates == {PENDING, RUNNING, SUCCEEDED, FAILED, CANCELLED, EXPIRED}

\* JOB_STATE_CANCELLED left out of the completed states
completed_states_without_cancelled == {SUCCEEDED, FAILED, EXPIRED}

\* JOB_STATE_RUNNING listed among the completed states
completed_states_with_running == {SUCCEEDED, FAILED, CANCELLED, EXPIRED, RUNNING}

completed_states == {SUCCEEDED, FAILED, CANCELLED, EXPIRED}

Unset == [t |-> "unset", v |-> <<>>]
NoRequest == [ok |-> FALSE, error |-> "", key |-> ""]

\* Python truthiness of what get_processed_data returned
Truthy(val) == val.t = "str" /\ val.v # <<>>

-----------------------------------------------------------------------------
(* Initial states *)

Idle ==
    /\ batch_job = "none"
    /\ observed = <<>>
    /\ sleeps = 0
    /\ file_content = <<>>
    /\ retval = Unset
    /\ exitCode = -1
    /\ error = ""
    /\ ops = {}
    /\ runs = 1
    /\ request = NoRequest
    /\ main_out = <<>>
    /\ cpc = "setup"
    /\ cops = {}
    /\ cexit = -1
    /\ cerror = ""

InitSubmit ==
    /\ flow = "submit"
    /\ apiKey \in BOOLEAN
    /\ dryRun \in BOOLEAN
    /\ data \in DataSamples
    /\ prompt = <<"p", ":", NL>>
    /\ uploadFile \in {Absent, File(OldBatch)}
    /\ output \in {Absent, File(OldOutput)}
    /\ jobState = "NONE"
    /\ pc = "setup"
    /\ schema = SCHEMA
    /\ record = GoodA
    /\ Idle

InitPoll ==
    /\ flow = "poll"
    /\ apiKey \in BOOLEAN
    /\ dryRun = FALSE
    /\ data = <<>>
    /\ prompt = <<>>
    /\ uploadFile = Absent
    /\ output \in {Absent, File(OldOutput)}
    /\ jobState \in JobStates \cup {"NONE"}
    /\ pc = "setup"
    /\ schema = SCHEMA
    /\ record = GoodA
    /\ Idle

Init == InitSubmit \/ InitPoll

-----------------------------------------------------------------------------
(* Steps of the scripts *)

\* an uncaught exception ends the process with exit code 1
Raise(e) ==
    /\ error' = e
    /\ exitCode' = 1
    /\ pc' = "exited"

\* os.environ.get("GEMINI_API_KEY"): nothing is raised when the key is absent
load_api_key_unchecked(present) == [ok |-> TRUE, error |-> ""]

\* load_api_key: the key, or ValueError when the environment holds none
load_api_key(present) == [ok |-> present, error |-> IF present THEN "" ELSE "ValueError"]

\* extract.py setup(): arguments, API key, input file, client, prompt
Setup ==
    /\ flow = "submit"
    /\ pc = "setup"
    /\ IF load_api_key(apiKey).ok
       THEN /\ pc' = "write"
            /\ ops' = ops \cup {"read_input"}
            /\ UNCHANGED <<error, exitCode>>
       ELSE /\ Raise(load_api_key(apiKey).error)
            /\ UNCHANGED ops
    /\ UNCHANGED <<flow, apiKey, dryRun, data, prompt, schema, uploadFile, output,
                   jobState, batch_job, observed, sleeps, file_content, retval,
                   runs, record, request, main_out, cpc, cops, cexit, cerror>>

\* the dry-run flag ignored
AfterWriteIgnoringDryRun(dry) == "upload"

\* the upload left out: the job is created right after the batch file is written
AfterWriteSkippingUpload(dry) == IF dry THEN "exited" ELSE "create"

\* where main goes once the batch file is written: it returns on --dry-run
AfterWrite(dry) == IF dry THEN "exited" ELSE "upload"

\* extract.py main(): write_jsonl, then the dry-run return
WriteJsonl ==
    /\ flow = "submit"
    /\ pc = "write"
    /\ uploadFile' = write_jsonl(uploadFile, data, prompt, schema)
    /\ ops' = ops \cup {"write_batch"}
    /\ IF ~WriteItems(data, prompt, schema).ok
       THEN Raise("KeyError") /\ UNCHANGED main_out
       ELSE /\ error' = error
            /\ pc' = AfterWrite(dryRun)
            /\ IF AfterWrite(dryRun) = "exited"
               THEN /\ exitCode' = 0
                    /\ main_out' = main_out \o <<"Prepared batch requests", "Dry run mode">>
               ELSE /\ exitCode' = exitCode
                    /\ main_out' = Append(main_out, "Prepared batch requests")
    /\ UNCHANGED <<flow, apiKey, dryRun, data, prompt, schema, output,
                   jobState, batch_job, observed, sleeps, file_content, retval,
                   runs, record, request, cpc, cops, cexit, cerror>>

\* a failed upload that is noted and passed over: main goes on to create the job
UploadFailedIgnored(e) ==
    /\ error' = e
    /\ exitCode' = exitCode
    /\ pc' = "create"

\* a failed upload: client.files.upload raises and main does not catch it
UploadFailed(e) == Raise(e)

\* client.files.upload
Upload ==
    /\ pc = "upload"
    /\ ops' = ops \cup {"upload"}
    /\ \E ok \in BOOLEAN :
          IF ok
          THEN /\ pc' = "create"
               /\ main_out' = Append(main_out, "Uploaded file")
               /\ UNCHANGED <<error, exitCode>>
          ELSE /\ UploadFailed("UploadError")
               /\ UNCHANGED main_out
    /\ UNCHANGED <<flow, apiKey, dryRun, data, prompt, schema, uploadFile, output,
                   jobState, batch_job, observed, sleeps, file_content, retval,
                   runs, record, request, cpc, cops, cexit, cerror>>

\* the job is created and its name is not printed
CreatedSilently(out) == out

\* print(f"Created batch job: {file_batch_job.name}")
Created(out) == Append(out, "Created batch job")

\* client.batches.create
CreateJob ==
    /\ pc = "create"
    /\ ops' = ops \cup {"create"}
    /\ \E ok \in BOOLEAN :
          IF ok
          THEN /\ pc' = "get1"
               /\ jobState' = PENDING
               /\ main_out' = Created(main_out)
               /\ UNCHANGED <<error, exitCode>>
          ELSE /\ Raise("JobCreationError")
               /\ UNCHANGED <<jobState, main_out>>
    /\ UNCHANGED <<flow, apiKey, dryRun, data, prompt, schema, uploadFile, output,
                   batch_job, observed, sleeps, file_content, retval,
                   runs, record, request, cpc, cops, cexit, cerror>>

\* poll_download_batch.py main(): arguments, API key, client
PollSetup ==
    /\ flow = "poll"
    /\ pc = "setup"
    /\ IF load_api_key(apiKey).ok
       THEN pc' = "attach" /\ UNCHANGED <<error, exitCode>>
       ELSE Raise(load_api_key(apiKey).error)
    /\ UNCHANGED <<flow, apiKey, dryRun, data, prompt, schema, uploadFile, output,
                   jobState, batch_job, observed, sleeps, file_content, retval,
                   ops, runs, record, request, main_out, cpc, cops, cexit, cerror>>

\* poll_download_batch.py main(): client.batches.get(name=args.job_id)
Attach ==
    /\ pc = "attach"
    /\ ops' = ops \cup {"get"}
    /\ IF jobState = "NONE"
       THEN Raise("APIError")
       ELSE pc' = "get1" /\ UNCHANGED <<error, exitCode>>
    /\ UNCHANGED <<flow, apiKey, dryRun, data, prompt, schema, uploadFile, output,
                   jobState, batch_job, observed, sleeps, file_content, retval,
                   runs, record, request, main_out, cpc, cops, cexit, cerror>>

\* the answers of the status queries: the last MaxSleeps + 2 of them are kept
Logged(log, state) ==
    IF Len(log) < MaxSleeps + 2 THEN Append(log, state) ELSE Append(Tail(log), state)

\* one client.batches.get of get_processed_data, leading to position next
Query(at, next) ==
    /\ pc = at
    /\ ops' = ops \cup {"get"}
    /\ batch_job' = jobState
    /\ observed' = Logged(observed, jobState)
    /\ pc' = next
    /\ UNCHANGED <<flow, apiKey, dryRun, data, prompt, schema, uploadFile, output,
                   jobState, sleeps, file_content, retval, exitCode, error,
                   runs, record, request, main_out, cpc, cops, cexit, cerror>>

Get1 == Query("get1", "get2")

Get2 == Query("get2", "loop")

\* a loop that gives up after MaxSleeps sleeps
KeepPollingWithLimit(state, n) == state \notin completed_states /\ n < MaxSleeps

\* the test of the while loop; n is the number of sleeps so far, which it ignores
KeepPolling(state, n) == state \notin completed_states

\* the loop body: the state is not a completed one, sleep 30 seconds
\* (sleeps counts up to MaxSleeps; the loop itself has no limit)
Sleep ==
    /\ pc = "loop"
    /\ KeepPolling(batch_job, sleeps)
    /\ sleeps' = IF sleeps < MaxSleeps THEN sleeps + 1 ELSE sleeps
    /\ pc' = "get3"
    /\ UNCHANGED <<flow, apiKey, dryRun, data, prompt, schema, uploadFile, output,
                   jobState, batch_job, observed, file_content, retval, exitCode,
                   error, ops, runs, record, request, main_out, cpc, cops, cexit, cerror>>

Get3 == Query("get3", "loop")

\* every completed state but FAILED treated as a success
AfterLoopNotFailed(state) == IF state # FAILED THEN "download" ELSE "return_none"

\* the branch get_processed_data takes on the state it stopped at
AfterLoop(state) == IF state = SUCCEEDED THEN "download" ELSE "return_none"

\* the loop ends: the state is a completed one
Finish ==
    /\ pc = "loop"
    /\ ~KeepPolling(batch_job, sleeps)
    /\ IF AfterLoop(batch_job) = "download"
       THEN pc' = "download" /\ retval' = retval
       ELSE pc' = "main_exit" /\ retval' = PyNone
    /\ UNCHANGED <<flow, apiKey, dryRun, data, prompt, schema, uploadFile, output,
                   jobState, batch_job, observed, sleeps, file_content, exitCode,
                   error, ops, runs, record, request, main_out, cpc, cops, cexit, cerror>>

\* client.files.download and decode
Download(S) ==
    /\ pc = "download"
    /\ ops' = ops \cup {"download"}
    /\ \E ok \in BOOLEAN :
          IF ok
          THEN /\ \E c \in S : file_content' = c
               /\ pc' = "materialize"
               /\ UNCHANGED <<error, exitCode>>
          ELSE /\ Raise("DownloadError")
               /\ UNCHANGED file_content
    /\ UNCHANGED <<flow, apiKey, dryRun, data, prompt, schema, uploadFile, output,
                   jobState, batch_job, observed, sleeps, retval,
                   runs, record, request, main_out, cpc, cops, cexit, cerror>>

\* what parsing and writing content does: the output file, the value returned, the exception
materialize(old, content, writable) ==
    LET parsed == ParseLines(splitlines(content))
    IN  IF ~parsed.ok
        THEN [output |-> old, retval |-> Unset, error |-> "JSONDecodeError"]
        ELSE IF ~writable
        THEN [output |-> old, retval |-> Unset, error |-> "OSError"]
        ELSE [output |-> File(json_dump(parsed.list)), retval |-> Str(content), error |-> ""]

\* a failed materialization answered with a cancel request for the job
RollbackByCancel(sent) == sent \cup {"cancel"}

\* what a failed materialization adds to the requests sent: nothing, the
\* exception is not caught
Rollback(sent) == sent

\* parse the lines, write the output file, return the content
Materialize ==
    /\ pc = "materialize"
    /\ \E writable \in BOOLEAN :
          LET m == materialize(output, file_content, writable)
          IN  /\ output' = m.output
              /\ retval' = m.retval
              /\ IF m.error = ""
                 THEN /\ pc' = "main_exit"
                      /\ ops' = ops \cup {"write_output"}
                      /\ UNCHANGED <<error, exitCode>>
                 ELSE /\ Raise(m.error)
                      /\ ops' = Rollback(ops)
    /\ UNCHANGED <<flow, apiKey, dryRun, data, prompt, schema, uploadFile,
                   jobState, batch_job, observed, sleeps, file_content,
                   runs, record, request, main_out, cpc, cops, cexit, cerror>>

\* the exit code main chooses from what get_processed_data returned
ExitCodeFor(val) == IF Truthy(val) THEN 0 ELSE 1

ExitLine(code) ==
    IF code = 0 THEN "Batch processing completed successfully."
    ELSE "Batch processing did not complete successfully."

\* extract.py main(): sys.exit(0) or sys.exit(1)
MainExit ==
    /\ flow = "submit"
    /\ pc = "main_exit"
    /\ exitCode' = ExitCodeFor(retval)
    /\ main_out' = Append(main_out, ExitLine(ExitCodeFor(retval)))
    /\ pc' = "exited"
    /\ UNCHANGED <<flow, apiKey, dryRun, data, prompt, schema, uploadFile, output,
                   jobState, batch_job, observed, sleeps, file_content, retval,
                   error, ops, runs, record, request, cpc, cops, cexit, cerror>>

\* the two branches of the exit test of poll_download_batch.py swapped
PollExitCodeSwapped(val) == IF Truthy(val) THEN 1 ELSE 0

\* the exit code poll_download_batch.py chooses from what get_processed_data returned
PollExitCodeFor(val) == IF Truthy(val) THEN 0 ELSE 1

\* poll_download_batch.py main(): sys.exit(0) or sys.exit(1)
PollExit ==
    /\ flow = "poll"
    /\ pc = "main_exit"
    /\ exitCode' = PollExitCodeFor(retval)
    /\ main_out' = Append(main_out, ExitLine(PollExitCodeFor(retval)))
    /\ pc' = "exited"
    /\ UNCHANGED <<flow, apiKey, dryRun, data, prompt, schema, uploadFile, output,
                   jobState, batch_job, observed, sleeps, file_content, retval,
                   error, ops, runs, record, request, cpc, cops, cexit, cerror>>

\* the remote service moves the job on
RemoteStep ==
    /\ jobState \in {PENDING, RUNNING}
    /\ \E s \in JobStates \ {PENDING, jobState} : jobState' = s
    /\ UNCHANGED <<flow, pc, apiKey, dryRun, data, prompt, schema, uploadFile, output,
                   batch_job, observed, sleeps, file_content, retval, exitCode,
                   error, ops, runs, record, request, main_out, cpc, cops, cexit, cerror>>

\* what a cancel request does to the job at the remote service
RemoteCancel(state) == IF state \in {PENDING, RUNNING} THEN CANCELLED ELSE state

main_vars == <<flow, pc, apiKey, dryRun, data, prompt, schema, uploadFile, output,
               batch_job, observed, sleeps, file_content, retval, exitCode,
               error, ops, runs, record, request, main_out>>

\* cancel.py main(): arguments, API key, client
CancelSetup ==
    /\ cpc = "setup"
    /\ IF load_api_key(apiKey).ok
       THEN cpc' = "get" /\ UNCHANGED <<cexit, cerror>>
       ELSE cpc' = "exited" /\ cexit' = 1 /\ cerror' = load_api_key(apiKey).error
    /\ UNCHANGED <<main_vars, jobState, cops>>

\* cancel.py main(): client.batches.get(name=args.job_id)
CancelGet ==
    /\ cpc = "get"
    /\ cops' = cops \cup {"get"}
    /\ IF jobState = "NONE"
       THEN cpc' = "exited" /\ cexit' = 1 /\ cerror' = "APIError"
       ELSE cpc' = "cancel" /\ UNCHANGED <<cexit, cerror>>
    /\ UNCHANGED <<main_vars, jobState>>

\* cancel.py main(): client.batches.cancel(name=batch_job_to_cancel.name)
CancelJob ==
    /\ cpc = "cancel"
    /\ cops' = cops \cup {"cancel"}
    /\ jobState' = RemoteCancel(jobState)
    /\ cpc' = "exited"
    /\ cexit' = 0
    /\ UNCHANGED <<main_vars, cerror>>

Next ==
    \/ Setup
    \/ WriteJsonl
    \/ Upload
    \/ CreateJob
    \/ PollSetup
    \/ Attach
    \/ Get1
    \/ Get2
    \/ Sleep
    \/ Get3
    \/ Finish
    \/ Download(ContentSamples)
    \/ Materialize
    \/ MainExit
    \/ PollExit
    \/ RemoteStep
    \/ CancelSetup
    \/ CancelGet
    \/ CancelJob

Spec == Init /\ [][Next]_vars

\* the steps of the polling loop of get_processed_data
PollerStep == Get1 \/ Get2 \/ Sleep \/ Get3 \/ Finish

\* the running script keeps executing: a step of the polling loop that stays
\* possible is taken
SpecLive == Init /\ [][Next]_vars /\ WF_vars(PollerStep)

-----------------------------------------------------------------------------
(* Dry runs of extract.py over input files of up to MaxRecords records,   *)
(* started again after they exit                                           *)

InitDryRun ==
    /\ flow = "submit"
    /\ apiKey = TRUE
    /\ dryRun = TRUE
    /\ data \in SeqsUpTo(FileRecords, MaxRecords)
    /\ prompt \in Prompts
    /\ uploadFile \in {Absent, File(OldBatch)}
    /\ output = Absent
    /\ jobState = "NONE"
    /\ pc = "setup"
    /\ schema = SCHEMA
    /\ record = GoodA
    /\ Idle

\* the operator starts the same script again: files stay, the process state is new
Rerun ==
    /\ pc = "exited"
    /\ runs < MaxRuns
    /\ runs' = runs + 1
    /\ pc' = "setup"
    /\ batch_job' = "none"
    /\ observed' = <<>>
    /\ sleeps' = 0
    /\ file_content' = <<>>
    /\ retval' = Unset
    /\ exitCode' = -1
    /\ error' = ""
    /\ ops' = {}
    /\ main_out' = <<>>
    /\ UNCHANGED <<flow, apiKey, dryRun, data, prompt, schema, uploadFile, output,
                   jobState, record, request, cpc, cops, cexit, cerror>>

NextDryRun ==
    \/ Setup
    \/ WriteJsonl
    \/ Rerun

SpecDryRun == InitDryRun /\ [][NextDryRun]_vars

-----------------------------------------------------------------------------
(* poll_download_batch.py attached to a job that has already finished,     *)
(* over result files of up to MaxContentLen characters                     *)

InitFinished ==
    /\ flow = "poll"
    /\ apiKey = TRUE
    /\ dryRun = FALSE
    /\ data = <<>>
    /\ prompt = <<>>
    /\ uploadFile = Absent
    /\ output \in {Absent, File(OldOutput)}
    /\ jobState \in completed_states
    /\ pc = "setup"
    /\ schema = SCHEMA
    /\ record = GoodA
    /\ Idle

NextFinished ==
    \/ PollSetup
    \/ Attach
    \/ Get1
    \/ Get2
    \/ Finish
    \/ Download(Contents)
    \/ Materialize
    \/ PollExit

SpecFinished == InitFinished /\ [][NextFinished]_vars

-----------------------------------------------------------------------------
(* create_request called on one record *)

InitBuild ==
    /\ flow = "build"
    /\ apiKey = TRUE
    /\ dryRun = FALSE
    /\ data = <<>>
    /\ prompt \in Prompts
    /\ uploadFile = Absent
    /\ output = Absent
    /\ jobState = "NONE"
    /\ pc = "call"
    /\ schema \in Schemas
    /\ record \in Records
    /\ Idle

CreateRequest ==
    /\ flow = "build"
    /\ pc = "call"
    /\ request' = create_request(record, prompt, schema)
    /\ pc' = IF request'.ok THEN "returned" ELSE "raised"
    /\ UNCHANGED <<flow, apiKey, dryRun, data, prompt, schema, uploadFile, output,
                   jobState, batch_job, observed, sleeps, file_content, retval,
                   exitCode, error, ops, runs, record, main_out, cpc, cops, cexit, cerror>>

NextBuild == CreateRequest

SpecBuild == InitBuild /\ [][NextBuild]_vars

-----------------------------------------------------------------------------
(* Properties *)

TerminalStates ==
    {"JOB_STATE_SUCCEEDED", "JOB_STATE_FAILED", "JOB_STATE_CANCELLED", "JOB_STATE_EXPIRED"}

Last(q) == q[Len(q)]

\* get_processed_data has left its polling loop
Stopped == pc \in {"download", "materialize", "main_exit"} \/ retval # Unset
           \/ ops \cap {"download", "write_output"} # {}

\* C1: get_processed_data does not return, download or write results before one
\* of its status queries has returned SUCCEEDED, FAILED, CANCELLED or EXPIRED,
\* whatever states the remote reports.
C1_StopsOnlyOnTerminal ==
    Stopped => (observed # <<>> /\ Last(observed) \in TerminalStates)

\* a poller that saw a non-terminal state, slept, and then returned
C1_Witness ==
    /\ retval # Unset
    /\ Len(observed) >= 3
    /\ observed[2] \notin TerminalStates
    /\ sleeps >= 1

C2_State ==
    /\ (pc \in {"download", "materialize"} \/ ops \cap {"download", "write_output"} # {})
          => batch_job = "JOB_STATE_SUCCEEDED"
    /\ (pc \in {"main_exit", "exited"}
        /\ batch_job \in {"JOB_STATE_FAILED", "JOB_STATE_CANCELLED", "JOB_STATE_EXPIRED"})
          => /\ retval = PyNone
             /\ "download" \notin ops
             /\ (pc = "exited" => exitCode # 0)

\* C2: the result file is downloaded and the output file written only when the
\* state the poller stopped at is SUCCEEDED; on FAILED, CANCELLED or EXPIRED
\* nothing is downloaded, the output file is not changed, and
\* get_processed_data returns None, so the caller exits with a failure.
C2_OutputOnlyOnSuccess ==
    /\ []C2_State
    /\ [][output' # output => (batch_job = "JOB_STATE_SUCCEEDED" /\ pc = "materialize")]_vars

\* a run that ended on CANCELLED with the earlier output file still in place
C2_Witness ==
    /\ pc = "exited"
    /\ batch_job = "JOB_STATE_CANCELLED"
    /\ retval = PyNone
    /\ output = File(OldOutput)
    /\ exitCode = 1

\* C3: a run that reached the remote job exits with code 0 exactly when the job
\* reached SUCCEEDED and its results were written to the output file, whatever
\* the result file holds (an empty one included); every other outcome exits
\* with a non-zero code.
C3_ExitZeroIffMaterialized ==
    (pc = "exited" /\ ~dryRun)
       => (exitCode = 0 <=> (batch_job = "JOB_STATE_SUCCEEDED" /\ "write_output" \in ops))

\* a line that is not blank (it survives line.strip()) and does not parse as JSON
Malformed(line) == strip(line) # <<>> /\ ~json_loads(line).ok

HasMalformed(content) ==
    \E i \in 1..Len(splitlines(content)) : Malformed(splitlines(content)[i])

\* C4: when the result file of a SUCCEEDED job holds a non-blank line that is
\* not valid JSON, at any position among valid lines, materialization ends
\* with an error, no line is skipped, and the output file is neither created
\* nor changed.
C4_MalformedLineAborts ==
    [][(pc = "materialize" /\ HasMalformed(file_content))
          => /\ output' = output
             /\ error' = "JSONDecodeError"
             /\ pc' = "exited"
             /\ exitCode' # 0
             /\ retval' = Unset
             /\ "write_output" \notin ops']_vars

\* a malformed line after a valid one: the run failed and the earlier output file is intact
C4_Witness ==
    /\ pc = "exited"
    /\ error = "JSONDecodeError"
    /\ file_content = <<"1", NL, "x">>
    /\ output = File(OldOutput)
    /\ exitCode = 1

\* C5: when the status queries of the poller return RUNNING, RUNNING,
\* SUCCEEDED in this order, the poller has slept exactly twice and has made
\* exactly two queries after its first one when it stops.
C5_TwoSleepsTwoQueries ==
    (Stopped /\ observed = <<"JOB_STATE_RUNNING", "JOB_STATE_RUNNING", "JOB_STATE_SUCCEEDED">>)
       => (sleeps = 2 /\ Len(observed) - 1 = 2)

NonBlankLines(content) == SelectSeq(splitlines(content), LAMBDA l : strip(l) # <<>>)

Elements(q) == {q[i] : i \in 1..Len(q)}

JoinLines(ls) == Concat([i \in 1..Len(ls) |-> ls[i] \o <<NL>>])

\* the lines of content in every order
Reorderings(content) ==
    LET ls == splitlines(content)
    IN  {JoinLines([i \in 1..Len(ls) |-> ls[f[i]]]) : f \in Permutations(1..Len(ls))}

\* C6: when all result lines of a SUCCEEDED job are valid JSON, the output
\* array has one element per non-blank line of the result file, each the
\* decoded value of its line, in the order of the lines; blank lines add
\* nothing; and every reordering of the lines gives the same set of elements.
C6_OneElementPerLine ==
    "write_output" \in ops =>
        LET ls == NonBlankLines(file_content)
            arr == OutputArray(output.text)
        IN  /\ output.exists
            /\ Len(arr) = Len(ls)
            /\ \A i \in 1..Len(ls) : json_loads(ls[i]).ok /\ arr[i] = json_loads(ls[i]).value
            /\ \A c \in Reorderings(file_content) :
                  LET m == materialize(Absent, c, TRUE)
                  IN  /\ m.error = ""
                      /\ Len(OutputArray(m.output.text)) = Len(arr)
                      /\ Elements(OutputArray(m.output.text)) = Elements(arr)

\* two values around an empty line, the larger first
C6_Witness ==
    /\ "write_output" \in ops
    /\ file_content = <<"2", NL, NL, "1">>
    /\ OutputArray(output.text) = <<2, 1>>

ValidRecord(r) == r.uri.t = "str" /\ r.body.t = "str"

\* C7: for a record with a uri and a body, create_request returns a request
\* whose key is the uri and whose single text part is the prompt followed by
\* the body, unchanged, between <article> and </article>.
C7_KeyAndText ==
    (pc \in {"returned", "raised"} /\ ValidRecord(record)) =>
        /\ pc = "returned"
        /\ request.ok
        /\ request.key = record.uri
        /\ Len(request.request.contents) = 1
        /\ Len(request.request.contents[1].parts) = 1
        /\ request.request.contents[1].parts[1].text
              = prompt \o <<"<", "a", "r", "t", "i", "c", "l", "e", ">">> \o record.body.v
                       \o <<"<", "/", "a", "r", "t", "i", "c", "l", "e", ">">>

\* a body holding a quote and a newline, under a non-empty prompt
C7_Witness ==
    /\ pc = "returned"
    /\ record.uri = Str(<<"\"", NL>>)
    /\ record.body = Str(<<"\"", NL>>)
    /\ prompt # <<>>

\* C8: create_request raises, and returns no request, for every record whose
\* uri or body is missing or null.
C8_RejectsMissingOrNull ==
    (pc \in {"returned", "raised"} /\ ~ValidRecord(record)) => (pc = "raised" /\ ~request.ok)

\* the text member of one line of the batch file
LineText(line) ==
    LET at == CHOOSE i \in 1..Len(line) : line[i] = TextOpen
    IN  Unescape(SubSeq(line, at + 2, Len(line)))

Count(q, c) == Cardinality({i \in 1..Len(q) : q[i] = c})

\* C9: for valid records write_jsonl leaves a batch file with one line per
\* record, in input order; the i-th line is the JSON text of the request of
\* the i-th record, its key reads back as that record's uri, and records with
\* distinct uris get distinct keys.
C9_OneLinePerRecord ==
    ("write_batch" \in ops /\ \A i \in 1..Len(data) : ValidRecord(data[i])) =>
        LET ls == splitlines(uploadFile.text)
        IN  /\ error = ""
            /\ uploadFile.exists
            /\ Len(ls) = Len(data)
            /\ Count(uploadFile.text, NL) = Len(data)
            /\ \A i \in 1..Len(data) :
                  /\ ls[i] = Dumps(create_request(data[i], prompt, schema))
                  /\ LineKey(ls[i]) = data[i].uri
                  /\ LineText(ls[i]) = RequestText(data[i], prompt)
            /\ \A i, j \in 1..Len(data) :
                  data[i].uri # data[j].uri => LineKey(ls[i]) # LineKey(ls[j])

\* two records with distinct uris, the bodies holding a newline and a backslash
C9_Witness ==
    /\ "write_batch" \in ops
    /\ data = <<GoodB, GoodA>>
    /\ prompt # <<>>
    /\ uploadFile # File(<<>>)

\* C10: write_jsonl replaces whatever the file held (the result is the one of
\* writing to a path that did not exist), and writing the same records again
\* leaves the file as the first write left it.
C10_WriteIsIdempotent ==
    [][pc = "write"
          => /\ uploadFile' = write_jsonl(Absent, data, prompt, schema)
             /\ Len(uploadFile'.text) = Len(WriteItems(data, prompt, schema).text)
             /\ (runs > 1 => uploadFile' = uploadFile)]_vars

\* the second run has written the same two records again
C10_Witness ==
    /\ runs = 2
    /\ "write_batch" \in ops
    /\ Len(data) = 2
    /\ \A i \in 1..Len(data) : ValidRecord(data[i])
    /\ uploadFile.text # <<>>

\* C11: every request create_request returns carries a generationConfig that is
\* a structured block (a mapping) holding the given schema as responseSchema,
\* "application/json" as responseMimeType and 0 as temperature, whatever the
\* record and the prompt are.
C11_StructuredConfig ==
    pc = "returned" =>
        /\ request.generationConfig.t = "dict"
        /\ request.generationConfig.v.responseSchema = schema
        /\ request.generationConfig.v.responseMimeType = "application/json"
        /\ request.generationConfig.v.temperature = 0

\* C12: with no API key in the environment each script (submit, poll, cancel)
\* ends with a ValueError and a non-zero exit code, and has then read no input,
\* written no file, printed nothing and sent nothing to the remote service.
C12_NoKeyFailsFirst ==
    ~apiKey =>
        /\ ops = {}
        /\ cops = {}
        /\ main_out = <<>>
        /\ pc \in {"setup", "exited"}
        /\ cpc \in {"setup", "exited"}
        /\ pc = "exited" => (error = "ValueError" /\ exitCode = 1)
        /\ cpc = "exited" => (cerror = "ValueError" /\ cexit = 1)
        /\ flow = "submit" => jobState = "NONE"

\* the submit script and the cancel script have both ended on the missing key
C12_Witness ==
    /\ ~apiKey
    /\ flow = "submit"
    /\ pc = "exited"
    /\ cpc = "exited"
    /\ error = "ValueError"
    /\ cerror = "ValueError"

Polling == pc \in {"get1", "get2", "get3", "loop"}

\* C13: a cancel request on a job that is PENDING or RUNNING makes it CANCELLED
\* for good; every status query from then on answers CANCELLED; a poller that
\* observed CANCELLED leaves the loop returning None, downloads nothing, leaves
\* the output file alone and exits with code 1; and a poller polling a
\* cancelled job does stop, however the cancel script's steps fall between
\* the poller's queries and sleeps.
C13_CancelStopsPoller ==
    /\ [][/\ (cpc = "cancel" /\ cpc' = "exited" /\ jobState \in {PENDING, RUNNING})
                => jobState' = CANCELLED
          /\ jobState = CANCELLED => jobState' = CANCELLED
          /\ (jobState = CANCELLED /\ pc \in {"get1", "get2", "get3"} /\ pc' # pc)
                => (batch_job' = CANCELLED /\ Last(observed') = CANCELLED)
          /\ (batch_job = CANCELLED /\ pc = "loop" /\ pc' # pc)
                => (pc' = "main_exit" /\ retval' = PyNone)
          /\ (batch_job = CANCELLED /\ pc = "main_exit" /\ pc' # pc)
                => (pc' = "exited" /\ exitCode' = 1)
          /\ (batch_job = CANCELLED /\ pc \in {"loop", "main_exit", "exited"})
                => (output' = output /\ file_content' = file_content /\ ops' = ops)]_vars
    /\ [](batch_job = CANCELLED => ops \cap {"download", "write_output"} = {})
    /\ (Polling /\ jobState = CANCELLED)
          ~> (pc = "main_exit" /\ batch_job = CANCELLED /\ retval = PyNone)

\* the cancel script cancelled the job between two queries of a poller that had
\* seen it RUNNING; the poller slept, saw CANCELLED and exited with code 1
C13_Witness ==
    /\ "cancel" \in cops
    /\ cexit = 0
    /\ Len(observed) >= 3
    /\ observed[Len(observed) - 1] = RUNNING
    /\ batch_job = CANCELLED
    /\ sleeps >= 1
    /\ pc = "exited"
    /\ exitCode = 1
    /\ retval = PyNone

Printed(line) == \E i \in 1..Len(main_out) : main_out[i] = line

\* C14: in the submit flow the line naming the created job is printed only once
\* the job exists, and it has been printed in every state from which a status
\* query can be or has been sent.
C14_NameBeforeFirstQuery ==
    flow = "submit" =>
        /\ Printed("Created batch job") => ("create" \in ops /\ jobState # "NONE")
        /\ (Polling \/ "get" \in ops) => Printed("Created batch job")

\* the job is created and named, and no status query has been sent yet
C14_Witness ==
    /\ flow = "submit"
    /\ pc = "get1"
    /\ "get" \notin ops
    /\ main_out = <<"Prepared batch requests", "Uploaded file", "Created batch job">>

\* C15: once its polling has begun, what a run ends with is the same function
\* of the remote's answers and of the result file in the poll flow as in the
\* submit flow: the state it stopped at is the last answer, a terminal one; the
\* output file is written exactly when that state is SUCCEEDED and nothing
\* failed, and holds the parsed result file; the exit code is 0 exactly when
\* that happened and the result file was not empty; and the poll script's exit
\* step gives the code and the line the submit script gives for the same
\* returned value.
C15_PollLikeSubmit ==
    /\ []((pc = "exited" /\ observed # <<>>) =>
            /\ batch_job = Last(observed)
            /\ batch_job \in TerminalStates
            /\ "write_output" \in ops <=> (batch_job = SUCCEEDED /\ error = "")
            /\ "write_output" \in ops =>
                  output = File(json_dump(ParseLines(splitlines(file_content)).list))
            /\ exitCode = 0 <=> ("write_output" \in ops /\ file_content # <<>>)
            /\ exitCode \in {0, 1})
    /\ [][(pc = "main_exit" /\ pc' # pc) =>
            /\ pc' = "exited"
            /\ exitCode' = ExitCodeFor(retval)
            /\ main_out' = Append(main_out, ExitLine(ExitCodeFor(retval)))
            /\ output' = output]_vars

\* the poll script attached to a job, slept, saw it succeed, wrote the output
\* and exited with code 0
C15_Witness ==
    /\ flow = "poll"
    /\ pc = "exited"
    /\ sleeps >= 1
    /\ "write_output" \in ops
    /\ output.text # <<"[", "]", NL>>
    /\ exitCode = 0

\* C16: with --dry-run the submit script reads its input and writes the batch
\* file and does nothing else: it sends no upload, job creation, status query
\* or download, no job comes to exist, the output file is never touched, and
\* after a successful write it has ended with the batch file written.
C16_DryRunStopsAfterWrite ==
    /\ [](dryRun =>
            /\ ops \subseteq {"read_input", "write_batch"}
            /\ jobState = "NONE"
            /\ pc \in {"setup", "write", "exited"}
            /\ "write_batch" \in ops =>
                  /\ pc = "exited"
                  /\ uploadFile = write_jsonl(Absent, data, prompt, schema)
                  /\ error = "" => (exitCode = 0 /\ Printed("Dry run mode")))
    /\ [][dryRun => output' = output]_vars

\* a dry run over two records has written the batch file and ended
C16_Witness ==
    /\ dryRun
    /\ pc = "exited"
    /\ error = ""
    /\ Len(data) = 2
    /\ uploadFile.exists
    /\ uploadFile.text # <<>>
    /\ ops = {"read_input", "write_batch"}

\* C17: the polling loop has no limit: from the loop test with a non-terminal
\* answer the poller's only step is to sleep, and after the sleep to query
\* again, however often it has done so, and it always takes that step; and
\* a poller polling a job that has reached a terminal state leaves the loop.
C17_PollsUntilTerminal ==
    /\ [][/\ (pc = "loop" /\ batch_job \notin TerminalStates /\ pc' # pc) => pc' = "get3"
          /\ (pc = "get3" /\ pc' # pc)
                => (pc' = "loop" /\ batch_job' = jobState /\ "get" \in ops')]_vars
    /\ (pc = "loop" /\ batch_job \notin TerminalStates) ~> (pc = "get3")
    /\ (pc = "get3") ~> (pc = "loop")
    /\ (Polling /\ jobState \in TerminalStates) ~> (~Polling /\ batch_job \in TerminalStates)

\* more sleeps than are counted, every answer so far non-terminal, and the next
\* query about to be sent
C17_Witness ==
    /\ pc = "get3"
    /\ sleeps = MaxSleeps
    /\ Len(observed) = MaxSleeps + 2
    /\ \A i \in 1..Len(observed) : observed[i] \notin TerminalStates

\* the stage of the submit pipeline a position belongs to
Stage(p) ==
    CASE p = "setup" -> 0
      [] p = "write" -> 1
      [] p = "upload" -> 2
      [] p = "create" -> 3
      [] p \in {"get1", "get2", "loop", "get3"} -> 4
      [] p = "download" -> 5
      [] p = "materialize" -> 6
      [] p = "main_exit" -> 7
      [] p = "exited" -> 8

\* C18: the submit script goes through write, upload, create, poll, download
\* and write-output in that order: it never moves to an earlier stage, it
\* leaves every stage but polling for a later one on its single step, it
\* enters a stage from the one before it (or goes to its end: from polling or
\* from the write of the output to the exit test, from anywhere to the exit),
\* it is in a stage only when every stage before it was done without an error,
\* and it has sent or written something only if it did so in every earlier
\* stage.
C18_StagesInOrder ==
    /\ [][flow = "submit" =>
            /\ Stage(pc') >= Stage(pc)
            /\ (Stage(pc) # 4 /\ pc' # pc) => Stage(pc') > Stage(pc)
            /\ (Stage(pc') > Stage(pc) /\ pc' \notin {"main_exit", "exited"})
                  => Stage(pc') = Stage(pc) + 1
            /\ (pc' = "main_exit" /\ pc' # pc) => pc \in {"loop", "materialize"}
            /\ ops \subseteq ops']_vars
    /\ [](flow = "submit" =>
            /\ "write_batch" \in ops => "read_input" \in ops
            /\ "upload" \in ops => "write_batch" \in ops
            /\ "create" \in ops => "upload" \in ops
            /\ "get" \in ops => "create" \in ops
            /\ "download" \in ops => "get" \in ops
            /\ "write_output" \in ops => "download" \in ops
            /\ pc # "exited" =>
                  /\ error = ""
                  /\ Stage(pc) >= 1 <=> "read_input" \in ops
                  /\ Stage(pc) >= 2 <=> "write_batch" \in ops
                  /\ Stage(pc) >= 3 <=> "upload" \in ops
                  /\ Stage(pc) >= 4 <=> "create" \in ops
                  /\ Stage(pc) >= 5 <=> "download" \in ops \/ pc \in {"download", "main_exit"}
                  /\ Stage(pc) >= 5 => batch_job \in TerminalStates
                  /\ Stage(pc) = 6 <=> ("download" \in ops /\ "write_output" \notin ops))

\* a submit run that went through every stage, sleeping once or more
C18_Witness ==
    /\ flow = "submit"
    /\ pc = "exited"
    /\ sleeps >= 1
    /\ ops = {"read_input", "write_batch", "upload", "create", "get", "download",
              "write_output"}

\* C19: the submit and poll scripts send the remote service nothing but upload,
\* create, get and download, whatever they end with; the job's state changes
\* only in steps in which these scripts do nothing (the remote's own, or the
\* cancel script's cancel request) or in the creation of the job; and of the
\* three scripts only the cancel script's cancel step changes the state of an
\* existing job.
C19_PollerOnlyObserves ==
    /\ [](ops \subseteq {"read_input", "write_batch", "upload", "create", "get",
                         "download", "write_output"})
    /\ [][jobState' # jobState =>
            \/ (pc = "create" /\ jobState = "NONE" /\ jobState' = PENDING)
            \/ (main_vars' = main_vars /\ cpc = "cancel" /\ "cancel" \in cops')
            \/ (main_vars' = main_vars /\ UNCHANGED <<cpc, cops, cexit, cerror>>)]_vars
    /\ [][(main_vars' # main_vars /\ jobState # "NONE") => jobState' = jobState]_vars

\* the result file could not be parsed: the script ended on the exception and
\* the job is still SUCCEEDED at the remote
C19_Witness ==
    /\ pc = "exited"
    /\ error = "JSONDecodeError"
    /\ "download" \in ops
    /\ "write_output" \notin ops
    /\ jobState = SUCCEEDED

\* C20: in the submit flow the job creation is sent only after an upload that
\* succeeded, and a status query only after a creation that succeeded; after a
\* failed upload the script has ended with no creation sent and no job; after
\* a failed creation it has ended with no job, no status query, no download
\* and no write of the output file, which stays as it was.
C20_CreateAfterUploadPollAfterCreate ==
    /\ [](flow = "submit" =>
            /\ (pc = "create" \/ "create" \in ops)
                  => ("upload" \in ops /\ Printed("Uploaded file") /\ error # "UploadError")
            /\ (Polling \/ "get" \in ops)
                  => ("create" \in ops /\ jobState # "NONE" /\ error # "JobCreationError")
            /\ jobState # "NONE" => Printed("Uploaded file")
            /\ error = "UploadError" =>
                  /\ pc = "exited" /\ exitCode = 1
                  /\ jobState = "NONE"
                  /\ ops = {"read_input", "write_batch", "upload"}
            /\ error = "JobCreationError" =>
                  /\ pc = "exited" /\ exitCode = 1
                  /\ jobState = "NONE"
                  /\ batch_job = "none" /\ observed = <<>>
                  /\ ops = {"read_input", "write_batch", "upload", "create"})
    /\ [][(error \in {"UploadError", "JobCreationError"}) => output' = output]_vars

\* the upload went through and the creation of the job was rejected
C20_Witness ==
    /\ flow = "submit"
    /\ error = "JobCreationError"
    /\ pc = "exited"
    /\ Printed("Uploaded file")
    /\ output = File(OldOutput)

\* a record for which create_request raises: record["body"] or record["uri"]
\* is not there
Fails(r) == r.body.t = "missing" \/ r.uri.t = "missing"

\* the positions of the records of the input for which create_request raises
FailingAt == {k \in 1..Len(data) : Fails(data[k])}

\* C21: when the k-th record is the first one whose request cannot be built,
\* the submit script, once it has run write_jsonl, has ended on the KeyError
\* with exit code 1; the batch file exists and holds exactly k-1 lines, the
\* requests of the records before the k-th in input order, and nothing of what
\* it held before; and nothing was uploaded, no job was created and nothing
\* else was sent or written.
C21_PartialFileNoUpload ==
    (flow = "submit" /\ "write_batch" \in ops /\ FailingAt # {}) =>
        LET k == CHOOSE i \in FailingAt : \A j \in FailingAt : i <= j
            ls == splitlines(uploadFile.text)
        IN  /\ pc = "exited"
            /\ error = "KeyError"
            /\ exitCode = 1
            /\ uploadFile.exists
            /\ Len(ls) = k - 1
            /\ Count(uploadFile.text, NL) = k - 1
            /\ \A i \in 1..(k - 1) :
                  /\ ls[i] = Dumps(create_request(data[i], prompt, schema))
                  /\ LineKey(ls[i]) = data[i].uri
            /\ ops = {"read_input", "write_batch"}
            /\ jobState = "NONE"
            /\ main_out = <<>>

\* the second of two records has no body: the script ended on the KeyError and
\* the batch file holds the first record's request
C21_Witness ==
    /\ flow = "submit"
    /\ ~dryRun
    /\ data = <<GoodA, NoBody>>
    /\ pc = "exited"
    /\ error = "KeyError"
    /\ uploadFile.exists
    /\ uploadFile.text # <<>>

====
